---- MODULE Spec2Model ----
(***************************************************************************)
(* souvenir-notifier: the poll / diff / notify loop of the server script   *)
(* (run, fetchInventory, getItemPrice, readData, saveData, start, restart, *)
(* stop) as a state machine.  Each asynchronous callback of the script is  *)
(* one action; the synchronous code it runs is part of that action.        *)
(***************************************************************************)
EXTENDS Integers, Sequences, FiniteSets, Bags, TLC

(* ------------------------------ bounds -------------------------------- *)
\* start() calls over the life of the process (each issues one directory read):
\* two in Spec, so that a poll can begin while another is in flight, and one in
\* SpecOnePoll
MaxStarts == 2
MaxStartsOnePoll == 1
\* connectivity probes outstanding at one time
MaxProbes == 1

(* --------------------------- values of the script --------------------- *)
\* JavaScript undefined and JSON null
Undef == "undefined"
Null == "null"

\* let mInterval = -1
NoInterval == -1

Accounts == {"a1", "a2"}

\* names tested by REGEX_NAME: only the first reaches "Souvenir Package" at its end
SouvenirName == "ESL One Katowice 2019 Dust II Souvenir Package"
OpenedName == "ESL One Katowice 2019 Dust II Souvenir Package (opened)"

\* REGEX_NAME.exec(name) !== null
REGEX_NAME(name) == name = SouvenirName

\* description lines tested by REGEX_MATCH
MatchLine == "It was dropped during the Final match between Astralis and ENCE,"
MatchLine2 == "It was dropped during the Semifinal match between Liquid and NaVi,"
OtherLine == "Base Grade Container"

\* the null that REGEX_MATCH.exec and getMatchInfo return (a record, so that it
\* compares with the match records)
NullInfo == [isNull |-> TRUE]

\* REGEX_MATCH.exec(value): the captured groups, or null
REGEX_MATCH(value) ==
    IF value = MatchLine
    THEN [tier |-> "Final", team1 |-> "Astralis", team2 |-> "ENCE"]
    ELSE IF value = MatchLine2
    THEN [tier |-> "Semifinal", team1 |-> "Liquid", team2 |-> "NaVi"]
    ELSE NullInfo

(* --------------------------- the remote directory --------------------- *)
\* data/users of the Firebase database: app users in iteration order, each
\* with a token and steamAccounts, the Steam accounts it follows (account id
\* and the name this app user gave it) in iteration order
AppUser(token, steamAccounts) == [token |-> token, steamAccounts |-> steamAccounts]
Steam(id, username) == [id |-> id, username |-> username]

Dir1 == << AppUser("t1", <<Steam("a1", "alice"), Steam("a2", "bob")>>),
           AppUser("t2", <<Steam("a2", "bobby")>>) >>
Dir2 == << AppUser("t1", <<Steam("a1", "alice")>>) >>
Directories == {Dir1, Dir2}

\* the directories SpecDirectories resolves: one to three app users t1, t2, t3
\* in this order, each following none, one or both of the accounts under names
\* of its own
Tokens == <<"t1", "t2", "t3">>
NameBy(token, id) ==
    CASE token = "t1" /\ id = "a1" -> "alice"
      [] token = "t1" /\ id = "a2" -> "bob"
      [] token = "t2" /\ id = "a1" -> "ally"
      [] token = "t2" /\ id = "a2" -> "bobby"
      [] token = "t3" /\ id = "a1" -> "al"
      [] token = "t3" /\ id = "a2" -> "rob"
Followed == {<< >>, <<"a1">>, <<"a2">>, <<"a1", "a2">>, <<"a2", "a1">>}
AllDirectories ==
    UNION {{[k \in 1..n |->
               AppUser(Tokens[k],
                       [i \in 1..Len(f[k]) |-> Steam(f[k][i], NameBy(Tokens[k], f[k][i]))])] :
              f \in [1..n -> Followed]} : n \in 1..Len(Tokens)}

\* l in user.steamAccounts
Lists(user, l) == \E i \in 1..Len(user.steamAccounts) : user.steamAccounts[i].id = l

\* steamAccounts[l]
NameIn(user, l) ==
    user.steamAccounts[CHOOSE i \in 1..Len(user.steamAccounts) :
                          user.steamAccounts[i].id = l].username

\* users[l].keys after the loops: user.token pushed for every app user that
\* lists the account, in iteration order
RECURSIVE KeysOf(_, _)
KeysOf(val, l) ==
    IF val = << >> THEN << >>
    ELSE LET user == Head(val)
         IN  (IF Lists(user, l) THEN <<user.token>> ELSE << >>) \o KeysOf(Tail(val), l)

\* users[l].username: users[l] is created when the loops meet l for the first
\* time (!users.hasOwnProperty(l)) and its username is not assigned again
RECURSIVE UsernameOf(_, _)
UsernameOf(val, l) ==
    IF Lists(Head(val), l) THEN NameIn(Head(val), l) ELSE UsernameOf(Tail(val), l)

\* a resolution that keeps one key per account
readUsersFromDatabase_OneKey(val) ==
    LET listed == {l \in Accounts : \E k \in 1..Len(val) : Lists(val[k], l)}
    IN  [l \in listed |->
            [username |-> UsernameOf(val, l), steam_id |-> l,
             keys |-> <<Head(KeysOf(val, l))>>]]

\* readUsersFromDatabase: the users object handed to the callback
readUsersFromDatabase(val) ==
    LET listed == {l \in Accounts : \E k \in 1..Len(val) : Lists(val[k], l)}
    IN  [l \in listed |->
            [username |-> UsernameOf(val, l), steam_id |-> l, keys |-> KeysOf(val, l)]]

(* --------------------------- inventory responses ---------------------- *)
Item(name, classid, instanceid, descriptions) ==
    [name |-> name, classid |-> classid, instanceid |-> instanceid,
     descriptions |-> descriptions]
Asset(classid, instanceid, assetid) ==
    [classid |-> classid, instanceid |-> instanceid, assetid |-> assetid]

Pkg1 == Item(SouvenirName, "c1", "0", <<OtherLine, MatchLine>>)
Pkg2 == Item(SouvenirName, "c2", "0", <<MatchLine>>)
Pkg3NoInfo == Item(SouvenirName, "c3", "0", <<OtherLine>>)
Opened == Item(OpenedName, "c9", "0", <<OtherLine>>)
Pkg4 == Item(SouvenirName, "c4", "0", <<MatchLine>>)
Pkg5 == Item(SouvenirName, "c5", "0", <<MatchLine>>)
Pkg6 == Item(SouvenirName, "c6", "0", <<OtherLine, MatchLine2, MatchLine>>)
Pkg7 == Item(SouvenirName, "c7", "0", <<MatchLine, OtherLine, MatchLine2>>)
Pkg8NoLines == Item(SouvenirName, "c8", "0", << >>)

\* the bodies the inventory request can hand to the callback of fetchInventory
\*   err     : request error or a body that is not JSON
\*   null    : the body "null" (private inventory)
\*   nolists : a JSON object without descriptions and assets
\*   the others: an inventory
Responses == {"err", "null", "nolists", "I0", "I1", "I12", "I3x"}

\* inventories that only SpecInventories answers with
\*   I4d : the same description twice
\*   I5t : two owned assets that share one description
RareBodies == {"I4d", "I5t"}

\* the inventories SpecMatchInfo answers with: items with no description line,
\* with lines of which none, one or two match REGEX_MATCH
\*   I67 : two items with two matching lines each, in either order
\*   I8e : an item without description lines
MatchBodies == {"I1", "I12", "I3x", "I67", "I8e"}

\* the bodies each account's request is answered with
Bodies(a) == IF a = "a1" THEN Responses ELSE {"err", "I0", "I1"}

Inventory(r) ==
    CASE r = "I0"  -> [descriptions |-> << >>, assets |-> << >>]
      [] r = "I1"  -> [descriptions |-> <<Opened, Pkg1>>,
                       assets |-> <<Asset("c9", "0", "id9"), Asset("c1", "0", "id1")>>]
      [] r = "I12" -> [descriptions |-> <<Pkg1, Pkg2>>,
                       assets |-> <<Asset("c1", "0", "id1"), Asset("c2", "0", "id2")>>]
      [] r = "I3x" -> [descriptions |-> <<Pkg3NoInfo>>,
                       assets |-> <<Asset("c3", "0", "id3")>>]
      [] r = "I4d" -> [descriptions |-> <<Pkg4, Pkg4>>,
                       assets |-> <<Asset("c4", "0", "id4")>>]
      [] r = "I5t" -> [descriptions |-> <<Pkg5>>,
                       assets |-> <<Asset("c5", "0", "id5"), Asset("c5", "0", "id6")>>]
      [] r = "I67" -> [descriptions |-> <<Pkg6, Pkg7>>,
                       assets |-> <<Asset("c6", "0", "id7"), Asset("c7", "0", "id8")>>]
      [] r = "I8e" -> [descriptions |-> <<Pkg8NoLines>>,
                       assets |-> <<Asset("c8", "0", "id10")>>]

IsInventory(r) == r \in {"I0", "I1", "I12", "I3x", "I4d", "I5t", "I67", "I8e"}

\* the answers of the price request
\*   ok      : success with a lowest_price
\*   noprice : success without lowest_price
\*   fail    : success false
\*   error   : request error or a body that is not JSON
PriceResponses == {"ok", "noprice", "fail", "error"}

(* --------------------------- pure functions --------------------------- *)
Min(S) == CHOOSE x \in S : \A y \in S : x <= y
Max(S) == CHOOSE x \in S : \A y \in S : x >= y

\* getAssetId: the assetid of the first asset with that classid and instanceid
getAssetId(assets, classid, instanceid) ==
    LET hits == {i \in 1..Len(assets) :
                    assets[i].instanceid = instanceid /\ assets[i].classid = classid}
    IN  IF hits = {} THEN Undef ELSE assets[Min(hits)].assetid

\* a getMatchInfo that keeps scanning and returns the last line that matches
getMatchInfo_LastMatch(descriptors) ==
    LET hits == {i \in 1..Len(descriptors) : REGEX_MATCH(descriptors[i]) # NullInfo}
    IN  IF hits = {} THEN NullInfo ELSE REGEX_MATCH(descriptors[Max(hits)])

\* getMatchInfo: the groups of the first line that matches, or null
getMatchInfo(descriptors) ==
    LET hits == {i \in 1..Len(descriptors) : REGEX_MATCH(descriptors[i]) # NullInfo}
    IN  IF hits = {} THEN NullInfo ELSE REGEX_MATCH(descriptors[Min(hits)])

\* savedItems.indexOf(assetId) === -1
NotIn(savedItems, assetId) == \A k \in 1..Len(savedItems) : savedItems[k] # assetId

(* --------------------------- the state document ----------------------- *)
EmptyDoc == [a \in {} |-> << >>]

Put(data, userId, list) ==
    [a \in DOMAIN data \cup {userId} |-> IF a = userId THEN list ELSE data[a]]

\* JSON.stringify of the data object: undefined array elements become null
Stringify(data) ==
    [a \in DOMAIN data |->
        [i \in 1..Len(data[a]) |-> IF data[a][i] = Undef THEN Null ELSE data[a][i]]]

\* the file: present and parsable with a document, or absent
NoFile == [ok |-> FALSE, doc |-> EmptyDoc]
FileOf(doc) == [ok |-> TRUE, doc |-> doc]

\* documents left by earlier runs of the script
Doc0 == [a \in Accounts |-> IF a = "a1" THEN <<"id1", "id2">> ELSE << >>]
InitialFiles == {NoFile, FileOf(Doc0)}

Range(s) == {s[i] : i \in 1..Len(s)}

\* mUsers before the first callback of start() assigns it: undefined, which
\* nothing reads; written as the users object without accounts
NoUsers == [a \in {} |-> << >>]

(* ------------------------------- state -------------------------------- *)
VARIABLES
    alive,      \* "running", "crashed" (uncaught exception) or "exited" (process.exit)
    file,       \* files/data.json
    writer,     \* history: the cycle that wrote the file last (0: readData or an earlier run)
    dbVal,      \* the value of data/users in the remote database
    mUsers,     \* let mUsers: the users object; NoUsers while it is undefined
    mInterval,  \* let mInterval: the handle of the last setInterval, or -1
    mRestart,   \* let mRestart
    timers,     \* the interval timers that are armed (their handles)
    nTimers,    \* setInterval calls so far (the next handle is nTimers + 1)
    starts,     \* start() calls so far
    reads,      \* directory reads of start() that are not yet answered
    probes,     \* connectivity probes of timer firings that are not yet answered
    cycles,     \* the run(users) invocations that went on to poll, in order
    sent,       \* history: the bag of sendFirebaseMessage calls
    shutdown,   \* "none"; "signalled": SIGINT was handled, the exit timer and the
                \* status write are outstanding; "statusWritten": the write completed
    logged,     \* history: the warnings and errors written by log()
    faults,     \* history: the failures the environment has injected
    mRemoteControl, \* let mRemoteControl: the listener of the config node is registered
    idle        \* history: the server was launched idle and has handled no start
                \* command, or the last remote command it handled was a stop

vars == <<alive, file, writer, dbVal, mUsers, mInterval, mRestart, timers, nTimers,
          starts, reads, probes, cycles, sent, shutdown, logged, faults,
          mRemoteControl, idle>>

\* what the closures of one run(users) invocation share and what is outstanding
\*   users   : the argument (the users object of readUsersFromDatabase)
\*   data    : const data = readData(), mutated by the fetch callbacks
\*   prior   : history, data as it was read
\*   newUser : the accounts with data[userId] === undefined when run looped over them
\*   pending : the accounts whose fetchInventory callback has not run
\*   resp    : history, the body each fetch callback received
\*   lookups : the getItemPrice callbacks that have not run
\*   issued  : history, every getItemPrice call made
\*   alone   : history, no earlier cycle was in flight when this one began
NewCycle(users, data, alone) ==
    [users   |-> users,
     data    |-> data,
     prior   |-> data,
     newUser |-> {a \in DOMAIN users : a \notin DOMAIN data},
     pending |-> DOMAIN users,
     resp    |-> [a \in DOMAIN users |-> "pending"],
     lookups |-> {},
     issued  |-> {},
     alone   |-> alone]

InFlight(c) == cycles[c].pending # {} \/ cycles[c].lookups # {}
Done(c) == ~InFlight(c)

\* readData that leaves an unreadable file as it is
AfterReadData_LeavesFile(f) == f

\* readData: the parsed document; an absent or unparsable file is replaced by "{}"
readData(f) == IF f.ok THEN f.doc ELSE EmptyDoc
AfterReadData(f) == IF f.ok THEN f ELSE FileOf(EmptyDoc)

\* saveData(data): the file holds JSON.stringify(data)
saveData(data) == FileOf(Stringify(data))

Init ==
    /\ alive = "running"
    /\ file \in InitialFiles
    /\ writer = 0
    /\ dbVal = Dir1
    /\ mUsers = NoUsers
    /\ mInterval = NoInterval
    /\ mRestart = FALSE
    /\ timers = {}
    /\ nTimers = 0
    /\ starts = 1
    /\ reads = 1
    /\ probes = 0
    /\ cycles = << >>
    /\ sent = EmptyBag
    /\ shutdown = "none"
    /\ logged = {}
    /\ faults = {}
    /\ mRemoteControl = FALSE
    /\ idle = FALSE

\* Reconcile without the test of newUser before the price lookup
Reconcile_NotifiesNewUser(inv, savedItems, newUser) ==
    LET items == inv.descriptions
        idOf(i) == getAssetId(inv.assets, items[i].classid, items[i].instanceid)
        matched == {i \in 1..Len(items) : REGEX_NAME(items[i].name)}
        fresh == {i \in matched : NotIn(savedItems, idOf(i))}
        listTo(n) == [k \in 1..Cardinality({i \in matched : i <= n}) |->
                         idOf(CHOOSE i \in matched :
                                 Cardinality({j \in matched : j <= i}) = k)]
    IN  [list    |-> listTo(Len(items)),
         lookups |-> {[idx |-> i, id |-> idOf(i),
                       info |-> getMatchInfo(items[i].descriptions)] : i \in fresh},
         saves   |-> (newUser /\ fresh # {}) \/ matched = {},
         saved   |-> IF newUser /\ fresh # {} THEN listTo(Max(fresh)) ELSE listTo(Len(items))]

\* Reconcile without the test of the name against REGEX_NAME
Reconcile_AnyName(inv, savedItems, newUser) ==
    LET items == inv.descriptions
        idOf(i) == getAssetId(inv.assets, items[i].classid, items[i].instanceid)
        matched == 1..Len(items)
        fresh == {i \in matched : NotIn(savedItems, idOf(i))}
        listTo(n) == [k \in 1..n |-> idOf(k)]
    IN  [list    |-> listTo(Len(items)),
         lookups |-> IF newUser THEN {}
                     ELSE {[idx |-> i, id |-> idOf(i),
                            info |-> getMatchInfo(items[i].descriptions)] : i \in fresh},
         saves   |-> (newUser /\ fresh # {}) \/ matched = {},
         saved   |-> IF newUser /\ fresh # {} THEN listTo(Max(fresh)) ELSE listTo(Len(items))]

(* --------------------- the body of a fetch callback ------------------- *)
\* lines 174-237 of run for one inventory: what the loop over the items leaves
\*   list    : data[userId] after the loop
\*   lookups : the getItemPrice calls issued (index of the item, asset id, match info)
\*   saved   : the list that the last saveData of the callback wrote, when one ran
Reconcile(inv, savedItems, newUser) ==
    LET items == inv.descriptions
        idOf(i) == getAssetId(inv.assets, items[i].classid, items[i].instanceid)
        matched == {i \in 1..Len(items) : REGEX_NAME(items[i].name)}
        fresh == {i \in matched : NotIn(savedItems, idOf(i))}
        listTo(n) == [k \in 1..Cardinality({i \in matched : i <= n}) |->
                         idOf(CHOOSE i \in matched :
                                 Cardinality({j \in matched : j <= i}) = k)]
    IN  [list    |-> listTo(Len(items)),
         lookups |-> IF newUser THEN {}
                     ELSE {[idx |-> i, id |-> idOf(i),
                            info |-> getMatchInfo(items[i].descriptions)] : i \in fresh},
         saves   |-> (newUser /\ fresh # {}) \/ matched = {},
         saved   |-> IF newUser /\ fresh # {} THEN listTo(Max(fresh)) ELSE listTo(Len(items))]

\* FailedFetch that empties the entry also for the body null
FailedFetch_NullClears(data, userId, r) ==
    IF r \in {"nolists", "null"} THEN Put(data, userId, << >>) ELSE data

\* FailedFetch that throws the whole store of the cycle away
FailedFetch_DropsStore(data, userId, r) == EmptyDoc

\* the callback of run for a body that is no inventory: data after it.
\*   err     : JSON.parse throws, the callback is not called
\*   null    : the callback logs the warning and returns
\*   nolists : items is undefined; data[userId] = [] runs before items.length
\*             throws into the catch of fetchInventory
FailedFetch(data, userId, r) ==
    IF r = "nolists" THEN Put(data, userId, << >>) ELSE data

\* what getItemPrice hands to its callback
PriceOf(pr) ==
    CASE pr = "ok"      -> "1,23 EUR"
      [] pr = "noprice" -> Undef
      [] pr = "fail"    -> "0"

RECURSIVE Messages(_, _, _, _)
Messages(c, p, keys, price) ==
    IF keys = << >> THEN EmptyBag
    ELSE SetToBag({[cycle |-> c, acct |-> p.acct, id |-> p.id, key |-> Head(keys),
                    price |-> price, info |-> p.info]})
         (+) Messages(c, p, Tail(keys), price)

\* lines 121-134 and 199-220: the request callback of getItemPrice and the
\* callback of run it calls
\*   sent   : the sendFirebaseMessage calls made
\*   saves  : saveData(data) was reached
\*   throws : an exception left the request callback
\* error: JSON.parse(body) throws.  No match info: matchInfo.team1 throws while
\* the first message is built.  No price: price.replace throws after saveData.
PriceCallback(c, p, keys, pr) ==
    IF pr = "error"
    THEN [sent |-> EmptyBag, saves |-> FALSE, throws |-> TRUE]
    ELSE IF p.info = NullInfo /\ keys # << >>
    THEN [sent |-> EmptyBag, saves |-> FALSE, throws |-> TRUE]
    ELSE [sent |-> Messages(c, p, keys, PriceOf(pr)), saves |-> TRUE,
          throws |-> PriceOf(pr) = Undef]

(* ------------------------------- the log ------------------------------ *)
\* a warning or an error written by log(); acct is the account the text names,
\* or Undef when it names none
LogEntry(level, text, acct) == [level |-> level, text |-> text, acct |-> acct]

\* what the request callback of fetchInventory and the callback of run log:
\*   err, nolists : the catch of fetchInventory logs "Error: " + body
\*   null         : the callback of run logs the warning with the username
\*   an inventory : "... already had a ..., not notifying" for a new user that
\*                  holds a matching item
FetchLog(a, r, newUser) ==
    IF r \in {"err", "nolists"} THEN {LogEntry("error", "Error: body", Undef)}
    ELSE IF r = "null" THEN {LogEntry("warning", "Failed to fetch inventory", a)}
    ELSE IF newUser /\ Reconcile(Inventory(r), << >>, TRUE).list # << >>
    THEN {LogEntry("warning", "already had, not notifying", a)}
    ELSE {}

(* ------------------------------ actions ------------------------------- *)
\* a listener that also re-resolves the keys of the cycles in flight: an account
\* the edited directory no longer lists loses its keys
onChildChanged_ReResolves(val) ==
    /\ alive = "running"
    /\ shutdown = "none"
    /\ val # dbVal
    /\ dbVal' = val
    /\ mRestart' = TRUE
    /\ cycles' = [c \in 1..Len(cycles) |->
                    [cycles[c] EXCEPT !.users =
                        [a \in DOMAIN cycles[c].users |->
                            IF a \in DOMAIN readUsersFromDatabase(val)
                            THEN readUsersFromDatabase(val)[a]
                            ELSE [cycles[c].users[a] EXCEPT !.keys = << >>]]]]
    /\ UNCHANGED <<alive, file, writer, mUsers, mInterval, timers, nTimers, starts,
                   reads, probes, sent, shutdown, logged, faults, mRemoteControl, idle>>

\* the child_changed listener of registerOnUpdateListener: the directory was
\* edited to the value val.  The SIGINT handler removes the listener
\* (db.ref("data").off())
onChildChanged(val) ==
    /\ alive = "running"
    /\ shutdown = "none"
    /\ val # dbVal
    /\ dbVal' = val
    /\ mRestart' = TRUE
    /\ UNCHANGED <<alive, file, writer, mUsers, mInterval, timers, nTimers, starts,
                   reads, probes, cycles, sent, shutdown, logged, faults,
                   mRemoteControl, idle>>

\* a callback of start() whose run(users) does not test mRestart
onUsersFetched_IgnoresFlag(limit) ==
    /\ alive = "running"
    /\ reads > 0
    /\ LET users == readUsersFromDatabase(dbVal)
           handle == nTimers + 1
       IN  /\ mUsers' = users
           /\ nTimers' = handle
           /\ mInterval' = handle
           /\ file' = AfterReadData(file)
           /\ writer' = IF file.ok THEN writer ELSE 0
           /\ cycles' = Append(cycles, NewCycle(users, readData(file),
                                                \A c \in 1..Len(cycles) : Done(c)))
           /\ timers' = timers \cup {handle}
           /\ reads' = reads - 1
           /\ UNCHANGED <<mRestart, starts>>
    /\ UNCHANGED <<alive, dbVal, probes, sent, shutdown, logged, faults,
                   mRemoteControl, idle>>

\* the callback start() hands to readUsersFromDatabase:
\*   mUsers = users; startupText(users); run(users); mInterval = setInterval(...)
\* where startupText calls readData() and run(users) is restart() when mRestart
\* is set and a poll otherwise
onUsersFetched(limit) ==
    /\ alive = "running"
    /\ reads > 0
    /\ LET users == readUsersFromDatabase(dbVal)
           handle == nTimers + 1
       IN  /\ mUsers' = users
           /\ nTimers' = handle
           /\ mInterval' = handle
           /\ file' = AfterReadData(file)
           /\ writer' = IF file.ok THEN writer ELSE 0
           /\ IF mRestart
              THEN /\ starts < limit
                   /\ mRestart' = FALSE
                   /\ timers' = (timers \ {mInterval}) \cup {handle}
                   /\ starts' = starts + 1
                   /\ reads' = reads
                   /\ UNCHANGED cycles
              ELSE /\ cycles' = Append(cycles, NewCycle(users, readData(file),
                                                     \A c \in 1..Len(cycles) : Done(c)))
                   /\ timers' = timers \cup {handle}
                   /\ reads' = reads - 1
                   /\ UNCHANGED <<mRestart, starts>>
    /\ UNCHANGED <<alive, dbVal, probes, sent, shutdown, logged, faults,
                   mRemoteControl, idle>>

\* an interval timer fires: checkInternetConnection(run.bind(mUsers)) sends the probe
onInterval(t) ==
    /\ alive = "running"
    /\ t \in timers
    /\ probes < MaxProbes
    /\ probes' = probes + 1
    /\ UNCHANGED <<alive, file, writer, dbVal, mUsers, mInterval, mRestart, timers,
                   nTimers, starts, reads, cycles, sent, shutdown, logged, faults,
                   mRemoteControl, idle>>

\* the probe is answered.  online: callback(), which is run bound to mUsers as
\* its this and called without arguments, so users is undefined: restart() when
\* mRestart is set, else readData() and a loop over nothing.  Not online:
\* process.exit()
onProbeAnswered(online, limit) ==
    /\ alive = "running"
    /\ probes > 0
    /\ probes' = probes - 1
    /\ IF ~online
       THEN /\ alive' = "exited"
            /\ logged' = logged \cup {LogEntry("error", "requires internet", Undef)}
            /\ UNCHANGED <<file, writer, mInterval, mRestart, timers, starts, reads>>
       ELSE IF mRestart
       THEN /\ starts < limit
            /\ mRestart' = FALSE
            /\ timers' = timers \ {mInterval}
            /\ mInterval' = NoInterval
            /\ starts' = starts + 1
            /\ reads' = reads + 1
            /\ UNCHANGED <<alive, file, writer, logged>>
       ELSE /\ file' = AfterReadData(file)
            /\ writer' = IF file.ok THEN writer ELSE 0
            /\ UNCHANGED <<alive, mInterval, mRestart, timers, starts, reads, logged>>
    /\ UNCHANGED <<dbVal, mUsers, nTimers, cycles, sent, shutdown, faults,
                   mRemoteControl, idle>>

\* the request callback of fetchInventory for account a of cycle c, with body r:
\* JSON.parse(body) and the callback of run inside the try
onInventoryFetched(c, a, r) ==
    /\ alive = "running"
    /\ c \in 1..Len(cycles)
    /\ a \in cycles[c].pending
    /\ LET cy == cycles[c]
           done == [cy EXCEPT !.pending = @ \ {a}, !.resp[a] = r]
           savedItems == IF a \in DOMAIN cy.data THEN cy.data[a] ELSE << >>
       IN  IF ~IsInventory(r)
           THEN /\ cycles' = [cycles EXCEPT ![c] =
                                [done EXCEPT !.data = FailedFetch(cy.data, a, r)]]
                /\ UNCHANGED <<file, writer>>
           ELSE LET rec == Reconcile(Inventory(r), savedItems, a \in cy.newUser)
                    calls == {[acct |-> a, idx |-> l.idx, id |-> l.id, info |-> l.info] :
                                 l \in rec.lookups}
                IN  /\ cycles' = [cycles EXCEPT ![c] =
                                    [done EXCEPT !.data = Put(cy.data, a, rec.list),
                                                 !.lookups = @ \cup calls,
                                                 !.issued = @ \cup calls]]
                    /\ IF rec.saves
                       THEN /\ file' = saveData(Put(cy.data, a, rec.saved))
                            /\ writer' = c
                       ELSE UNCHANGED <<file, writer>>
    /\ logged' = logged \cup FetchLog(a, r, a \in cycles[c].newUser)
    /\ UNCHANGED <<alive, dbVal, mUsers, mInterval, mRestart, timers, nTimers, starts,
                   reads, probes, sent, shutdown, faults, mRemoteControl, idle>>

\* the request callback of getItemPrice for lookup p of cycle c, answered pr,
\* and the callback of run it calls
onPriceFetched(c, p, pr) ==
    /\ alive = "running"
    /\ c \in 1..Len(cycles)
    /\ p \in cycles[c].lookups
    /\ LET cy == cycles[c]
           out == PriceCallback(c, p, cy.users[p.acct].keys, pr)
       IN  /\ cycles' = [cycles EXCEPT ![c].lookups = @ \ {p}]
           /\ sent' = sent (+) out.sent
           /\ alive' = IF out.throws THEN "crashed" ELSE alive
           /\ IF out.saves
              THEN /\ file' = saveData(cy.data)
                   /\ writer' = c
              ELSE UNCHANGED <<file, writer>>
    /\ logged' = logged \cup (IF pr = "fail"
                              THEN {LogEntry("error", "Error getting price", Undef)}
                              ELSE {})
    /\ UNCHANGED <<dbVal, mUsers, mInterval, mRestart, timers, nTimers, starts,
                   reads, probes, shutdown, faults, mRemoteControl, idle>>

\* the steps of a process that calls start() at most limit times
Steps(limit) ==
    \/ \E val \in Directories : onChildChanged(val)
    \/ onUsersFetched(limit)
    \/ \E t \in timers : onInterval(t)
    \/ \E online \in BOOLEAN : onProbeAnswered(online, limit)
    \/ \E c \in 1..Len(cycles) : \E a \in Accounts : \E r \in Bodies(a) :
          onInventoryFetched(c, a, r)
    \/ \E c \in 1..Len(cycles) : \E p \in cycles[c].lookups : \E pr \in PriceResponses :
          onPriceFetched(c, p, pr)

(* ----------------------- failures and signals ------------------------- *)
\* a file that was truncated or written in part: JSON.parse throws on it
TornFile == [ok |-> FALSE, doc |-> EmptyDoc]

\* the process is killed while the fetch callback of account a of cycle c is
\* inside fs.writeFileSync (lines 224, 235): the file is the old one, the new
\* one, or truncated
onKilledInFetchSave(c, a, r) ==
    /\ alive = "running"
    /\ c \in 1..Len(cycles)
    /\ a \in cycles[c].pending
    /\ IsInventory(r)
    /\ LET cy == cycles[c]
           savedItems == IF a \in DOMAIN cy.data THEN cy.data[a] ELSE << >>
           rec == Reconcile(Inventory(r), savedItems, a \in cy.newUser)
       IN  /\ rec.saves
           /\ file' \in {file, TornFile, saveData(Put(cy.data, a, rec.saved))}
    /\ alive' = "killed"
    /\ faults' = faults \cup {"kill"}
    /\ UNCHANGED <<writer, dbVal, mUsers, mInterval, mRestart, timers, nTimers, starts,
                   reads, probes, cycles, sent, shutdown, logged, mRemoteControl, idle>>

\* fs.writeFileSync throws in saveData called by the fetch callback (lines 224,
\* 235): the exception lands in the catch of fetchInventory, which logs the
\* body; the loop over the items ends at the first matching item
onInventoryFetchedSaveThrew(c, a, r) ==
    /\ alive = "running"
    /\ c \in 1..Len(cycles)
    /\ a \in cycles[c].pending
    /\ IsInventory(r)
    /\ LET cy == cycles[c]
           savedItems == IF a \in DOMAIN cy.data THEN cy.data[a] ELSE << >>
           rec == Reconcile(Inventory(r), savedItems, a \in cy.newUser)
           partial == IF rec.list = << >> THEN << >> ELSE <<rec.list[1]>>
       IN  /\ rec.saves
           /\ cycles' = [cycles EXCEPT ![c] =
                           [cy EXCEPT !.pending = @ \ {a}, !.resp[a] = r,
                                      !.data = Put(cy.data, a, partial)]]
    /\ logged' = logged \cup {LogEntry("error", "Error: body", Undef)}
    /\ faults' = faults \cup {"save"}
    /\ UNCHANGED <<alive, file, writer, dbVal, mUsers, mInterval, mRestart, timers,
                   nTimers, starts, reads, probes, sent, shutdown,
                   mRemoteControl, idle>>

\* fs.writeFileSync throws in saveData called by the price callback (line 214),
\* after the messages were dispatched: nothing catches the exception
onPriceFetchedSaveThrew(c, p, pr) ==
    /\ alive = "running"
    /\ c \in 1..Len(cycles)
    /\ p \in cycles[c].lookups
    /\ LET out == PriceCallback(c, p, cycles[c].users[p.acct].keys, pr)
       IN  /\ out.saves
           /\ sent' = sent (+) out.sent
    /\ cycles' = [cycles EXCEPT ![c].lookups = @ \ {p}]
    /\ alive' = "crashed"
    /\ logged' = logged \cup (IF pr = "fail"
                              THEN {LogEntry("error", "Error getting price", Undef)}
                              ELSE {})
    /\ faults' = faults \cup {"save"}
    /\ UNCHANGED <<file, writer, dbVal, mUsers, mInterval, mRestart, timers, nTimers,
                   starts, reads, probes, shutdown, mRemoteControl, idle>>

\* the directory read of start() fails or is never answered: once("value", ...)
\* was given no failure callback, so the callback of start() never runs
onUsersReadFailed ==
    /\ alive = "running"
    /\ reads > 0
    /\ reads' = reads - 1
    /\ faults' = faults \cup {"read"}
    /\ UNCHANGED <<alive, file, writer, dbVal, mUsers, mInterval, mRestart, timers,
                   nTimers, starts, probes, cycles, sent, shutdown, logged,
                   mRemoteControl, idle>>

\* a failed delivery that ends the process
onDeliveryFailed_Throws(m) ==
    /\ alive = "running"
    /\ m \in BagToSet(sent)
    /\ alive' = "crashed"
    /\ faults' = faults \cup {"delivery"}
    /\ UNCHANGED <<file, writer, dbVal, mUsers, mInterval, mRestart, timers,
                   nTimers, starts, reads, probes, cycles, sent, shutdown, logged,
                   mRemoteControl, idle>>

\* the promise of sendToDevice for the dispatched message m rejects: the catch
\* of sendFirebaseMessage logs the error
onDeliveryFailed(m) ==
    /\ alive = "running"
    /\ m \in BagToSet(sent)
    /\ logged' = logged \cup {LogEntry("error", "Error sending message", Undef)}
    /\ faults' = faults \cup {"delivery"}
    /\ UNCHANGED <<alive, file, writer, dbVal, mUsers, mInterval, mRestart, timers,
                   nTimers, starts, reads, probes, cycles, sent, shutdown,
                   mRemoteControl, idle>>

\* the SIGINT handler of init: arms the 10 s exit timer, removes the database
\* listeners and writes the server status, the last write with an exit callback
onSigint ==
    /\ alive = "running"
    /\ shutdown = "none"
    /\ shutdown' = "signalled"
    /\ UNCHANGED <<alive, file, writer, dbVal, mUsers, mInterval, mRestart, timers,
                   nTimers, starts, reads, probes, cycles, sent, logged, faults,
                   mRemoteControl, idle>>

\* a grace timer that waits for the cycles in flight
onGraceExpired_WaitsForCycles ==
    /\ alive = "running"
    /\ shutdown = "signalled"
    /\ \A c \in 1..Len(cycles) : Done(c)
    /\ alive' = "exited"
    /\ UNCHANGED <<file, writer, dbVal, mUsers, mInterval, mRestart, timers, nTimers,
                   starts, reads, probes, cycles, sent, shutdown, logged, faults,
                   mRemoteControl, idle>>

\* the timer armed by the SIGINT handler fires: process.exit()
onGraceExpired ==
    /\ alive = "running"
    /\ shutdown = "signalled"
    /\ alive' = "exited"
    /\ UNCHANGED <<file, writer, dbVal, mUsers, mInterval, mRestart, timers, nTimers,
                   starts, reads, probes, cycles, sent, shutdown, logged, faults,
                   mRemoteControl, idle>>

\* the write of server_online completes: its callback calls process.exit()
onStatusWritten ==
    /\ alive = "running"
    /\ shutdown = "signalled"
    /\ shutdown' = "statusWritten"
    /\ alive' = "exited"
    /\ UNCHANGED <<file, writer, dbVal, mUsers, mInterval, mRestart, timers, nTimers,
                   starts, reads, probes, cycles, sent, logged, faults,
                   mRemoteControl, idle>>

(* --------------------------- remote control -------------------------- *)
\* the child_added listener of registerOnServerStateListener receives the key
\* server_trigger with the value val: start() when mInterval is -1 and val is
\* true, stop() when mInterval is a handle and val is false, nothing otherwise;
\* the trigger is then set to null.  The SIGINT handler removes the listener
\* (db.ref("config").off())
onServerTrigger(val, limit) ==
    /\ alive = "running"
    /\ mRemoteControl
    /\ shutdown = "none"
    /\ IF mInterval = NoInterval /\ val
       THEN /\ starts < limit
            /\ starts' = starts + 1
            /\ reads' = reads + 1
            /\ UNCHANGED <<mInterval, timers>>
       ELSE IF mInterval # NoInterval /\ ~val
       THEN /\ timers' = timers \ {mInterval}
            /\ mInterval' = NoInterval
            /\ UNCHANGED <<starts, reads>>
       ELSE UNCHANGED <<mInterval, timers, starts, reads>>
    /\ idle' = ~val
    /\ UNCHANGED <<alive, file, writer, dbVal, mUsers, mRestart, nTimers, probes,
                   cycles, sent, shutdown, logged, faults, mRemoteControl>>

\* init with --idle or --remoteControl: start() is not called; the listener of
\* the config node is registered with --remoteControl
InitRemote ==
    /\ alive = "running"
    /\ file \in InitialFiles
    /\ writer = 0
    /\ dbVal = Dir1
    /\ mUsers = NoUsers
    /\ mInterval = NoInterval
    /\ mRestart = FALSE
    /\ timers = {}
    /\ nTimers = 0
    /\ starts = 0
    /\ reads = 0
    /\ probes = 0
    /\ cycles = << >>
    /\ sent = EmptyBag
    /\ shutdown = "none"
    /\ logged = {}
    /\ faults = {}
    /\ mRemoteControl \in BOOLEAN
    /\ idle = TRUE

Next == Steps(MaxStarts)

Spec == Init /\ [][Next]_vars

\* the process up to its first restart
NextOnePoll == Steps(MaxStartsOnePoll)

SpecOnePoll == Init /\ [][NextOnePoll]_vars

\* the process up to its first restart, answered also with the rare inventories
NextInventories ==
    \/ Steps(MaxStartsOnePoll)
    \/ \E c \in 1..Len(cycles) : \E a \in Accounts : \E r \in RareBodies :
          onInventoryFetched(c, a, r)

SpecInventories == Init /\ [][NextInventories]_vars

\* the process up to its first restart, with failures of the file system, of
\* the directory and of message delivery, and with kills
NextFaults ==
    \/ Steps(MaxStartsOnePoll)
    \/ \E c \in 1..Len(cycles) : \E a \in Accounts : \E r \in Bodies(a) :
          \/ onKilledInFetchSave(c, a, r)
          \/ onInventoryFetchedSaveThrew(c, a, r)
    \/ \E c \in 1..Len(cycles) : \E p \in cycles[c].lookups : \E pr \in PriceResponses :
          onPriceFetchedSaveThrew(c, p, pr)
    \/ onUsersReadFailed
    \/ \E m \in BagToSet(sent) : onDeliveryFailed(m)

SpecFaults == Init /\ [][NextFaults]_vars

\* the process up to its first restart, with the shutdown signal
NextShutdown ==
    \/ Steps(MaxStartsOnePoll)
    \/ onSigint
    \/ onGraceExpired
    \/ onStatusWritten

SpecShutdown == Init /\ [][NextShutdown]_vars

\* setTimeout fires while the process runs
SpecShutdownFair == SpecShutdown /\ WF_vars(onGraceExpired)

\* the restart sequence: directory edits while a restart can still follow
\* them, connectivity probes that succeed, and of the answers of Steam a
\* failed fetch, one inventory and the price answers "ok" and "error"
RestartBodies == {"err", "I1"}
RestartPrices == {"ok", "error"}

NextRestart ==
    \/ \E val \in Directories : (mRestart \/ starts < MaxStarts) /\ onChildChanged(val)
    \/ onUsersFetched(MaxStarts)
    \/ \E t \in timers : onInterval(t)
    \/ onProbeAnswered(TRUE, MaxStarts)
    \/ \E c \in 1..Len(cycles) : \E a \in Accounts : \E r \in RestartBodies :
          onInventoryFetched(c, a, r)
    \/ \E c \in 1..Len(cycles) : \E p \in cycles[c].lookups : \E pr \in RestartPrices :
          onPriceFetched(c, p, pr)

SpecRestart == Init /\ [][NextRestart]_vars

\* the timer keeps firing, the probes and the directory reads are answered
SpecRestartFair ==
    /\ SpecRestart
    /\ WF_vars(\E t \in timers : onInterval(t))
    /\ WF_vars(onProbeAnswered(TRUE, MaxStarts))
    /\ WF_vars(onUsersFetched(MaxStarts))

\* the resolution of the directory: start() on any of the directories, and
\* edits to any of them
InitDirectories ==
    /\ alive = "running"
    /\ file \in InitialFiles
    /\ writer = 0
    /\ dbVal \in AllDirectories
    /\ mUsers = NoUsers
    /\ mInterval = NoInterval
    /\ mRestart = FALSE
    /\ timers = {}
    /\ nTimers = 0
    /\ starts = 1
    /\ reads = 1
    /\ probes = 0
    /\ cycles = << >>
    /\ sent = EmptyBag
    /\ shutdown = "none"
    /\ logged = {}
    /\ faults = {}
    /\ mRemoteControl = FALSE
    /\ idle = FALSE

NextDirectories ==
    \/ \E val \in AllDirectories : onChildChanged(val)
    \/ onUsersFetched(MaxStartsOnePoll)

SpecDirectories == InitDirectories /\ [][NextDirectories]_vars

\* one poll answered with the inventories of MatchBodies
NextMatchInfo ==
    \/ onUsersFetched(MaxStartsOnePoll)
    \/ \E c \in 1..Len(cycles) : \E a \in Accounts : \E r \in MatchBodies :
          onInventoryFetched(c, a, r)
    \/ \E c \in 1..Len(cycles) : \E p \in cycles[c].lookups : \E pr \in PriceResponses :
          onPriceFetched(c, p, pr)

SpecMatchInfo == Init /\ [][NextMatchInfo]_vars

\* the process launched idle, with the commands of the remote control, up to
\* its first restart
NextRemote ==
    \/ Steps(MaxStartsOnePoll)
    \/ \E val \in BOOLEAN : onServerTrigger(val, MaxStartsOnePoll)

SpecRemote == InitRemote /\ [][NextRemote]_vars

(* ------------------------ vocabulary of the claims -------------------- *)
\* the item ids of the matching items of an inventory body
MatchedIds(r) ==
    LET inv == Inventory(r)
    IN  {getAssetId(inv.assets, inv.descriptions[i].classid, inv.descriptions[i].instanceid) :
            i \in {j \in 1..Len(inv.descriptions) : REGEX_NAME(inv.descriptions[j].name)}}

\* the ids as the document holds them
JsonIds(ids) == {IF i = Undef THEN Null ELSE i : i \in ids}

AllIds == UNION {MatchedIds(r) : r \in {x \in Responses : IsInventory(x)}}

Failures == {"err", "null", "nolists"}

\* the entry of account a in a document, as a set; Undef when there is none
Entry(doc, a) == IF a \in DOMAIN doc THEN Range(doc[a]) ELSE {Undef}

\* the sendFirebaseMessage calls of cycle c for account a
MsgSet(c, a) == {m \in BagToSet(sent) : m.cycle = c /\ m.acct = a}

RECURSIVE Copies(_)
Copies(S) ==
    IF S = {} THEN 0
    ELSE LET m == CHOOSE x \in S : TRUE IN CopiesIn(m, sent) + Copies(S \ {m})

\* the number of dispatch calls of cycle c for id of account a to key
MsgCount(c, a, id, key) == Copies({m \in MsgSet(c, a) : m.id = id /\ m.key = key})

\* the ids for which cycle c called getItemPrice on behalf of account a
IssuedIds(c, a) == {l.id : l \in {x \in cycles[c].issued : x.acct = a}}

Polled(c) == DOMAIN cycles[c].users

(* -------------------------------- C1 ---------------------------------- *)
\* C1: baseline capture.  For an account without an entry in the store when a
\* cycle starts and whose fetch succeeds in that cycle, the document the cycle
\* leaves holds for it exactly the ids of the matching items of the response,
\* and the cycle dispatches no notification for it, whatever the number of
\* matching items.
C1_BaselineCapture ==
    \A c \in 1..Len(cycles) : \A a \in Polled(c) :
        (a \notin DOMAIN cycles[c].prior /\ IsInventory(cycles[c].resp[a])) =>
            /\ MsgSet(c, a) = {}
            /\ writer = c =>
                 /\ file.ok
                 /\ Entry(file.doc, a) = JsonIds(MatchedIds(cycles[c].resp[a]))

\* a cycle has completed in which a new account held two matching items, and
\* another in which it held none
C1_Witness ==
    \E c \in 1..Len(cycles) : \E a, b \in Polled(c) :
        /\ Done(c) /\ writer = c
        /\ {a, b} \cap DOMAIN cycles[c].prior = {}
        /\ cycles[c].resp[a] = "I12"
        /\ cycles[c].resp[b] = "I0"

(* -------------------------------- C2 ---------------------------------- *)
\* C2: with an empty store at the start, the first cycle in which the fetch of
\* an account succeeds dispatches no notification for that account, whatever
\* happened to its fetches in other cycles.
C2_FirstPollSilent ==
    \A c \in 1..Len(cycles) : \A a \in Polled(c) :
        ( /\ cycles[1].prior = EmptyDoc
          /\ IsInventory(cycles[c].resp[a])
          /\ \A d \in 1..Len(cycles) :
                (d # c /\ a \in Polled(d)) => ~IsInventory(cycles[d].resp[a]) )
        => MsgSet(c, a) = {}

(* -------------------------------- C3 ---------------------------------- *)
\* C3: for an account with an entry in the store, once the fetch has succeeded
\* and the price lookups of the account have been answered, every id of
\* (matched ids minus stored ids) has caused exactly one dispatch call to each
\* key of the account, and no other id has caused any.
C3_NotifiesExactlyNew ==
    \A c \in 1..Len(cycles) : \A a \in Polled(c) :
        ( /\ a \in DOMAIN cycles[c].prior
          /\ IsInventory(cycles[c].resp[a])
          /\ \A l \in cycles[c].lookups : l.acct # a )
        => \A id \in AllIds : \A key \in Range(cycles[c].users[a].keys) :
              MsgCount(c, a, id, key) =
                 IF id \in MatchedIds(cycles[c].resp[a]) \ Range(cycles[c].prior[a])
                 THEN 1 ELSE 0

(* -------------------------------- C4 ---------------------------------- *)
\* C4: last snapshot.  When the latest cycle has completed, the document holds,
\* for every account whose fetch succeeded in it, exactly the ids of the
\* matching items of that response.
C4_LastSnapshot ==
    \A c \in 1..Len(cycles) : \A a \in Polled(c) :
        (c = Len(cycles) /\ Done(c) /\ IsInventory(cycles[c].resp[a])) =>
            /\ file.ok
            /\ Entry(file.doc, a) = JsonIds(MatchedIds(cycles[c].resp[a]))

(* -------------------------------- C5 ---------------------------------- *)
\* C5: an id that was stored for an account, is absent from the response of one
\* cycle and present in the response of the next cycle (begun after the first
\* had completed) is not in the store the next cycle reads and is looked up
\* for notification in the next cycle.
C5_ReappearingIsNew ==
    \A c \in 1..Len(cycles) : \A a \in Polled(c) :
        ( /\ c < Len(cycles) /\ cycles[c + 1].alone /\ a \in Polled(c + 1)
          /\ a \in DOMAIN cycles[c].prior
          /\ IsInventory(cycles[c].resp[a]) /\ IsInventory(cycles[c + 1].resp[a]) )
        => \A id \in Range(cycles[c].prior[a]) :
              ( /\ id \notin MatchedIds(cycles[c].resp[a])
                /\ id \in MatchedIds(cycles[c + 1].resp[a]) )
              => /\ id \notin Entry(cycles[c + 1].prior, a)
                 /\ id \in IssuedIds(c + 1, a)

(* -------------------------------- C6 ---------------------------------- *)
\* C6: idempotence.  When a cycle begun after the previous one had completed
\* has itself completed, and every account was answered the same inventory in
\* both, the second cycle has looked up no id, dispatched nothing, and the
\* document is the one it read at its start.
C6_Idempotent ==
    \A c \in 1..Len(cycles) :
        ( /\ c < Len(cycles) /\ c + 1 = Len(cycles)
          /\ cycles[c + 1].alone /\ Done(c + 1)
          /\ Polled(c) = Polled(c + 1)
          /\ \A a \in Polled(c) : /\ IsInventory(cycles[c].resp[a])
                                  /\ cycles[c + 1].resp[a] = cycles[c].resp[a] )
        => /\ cycles[c + 1].issued = {}
           /\ \A a \in Polled(c + 1) : MsgSet(c + 1, a) = {}
           /\ file.doc = cycles[c + 1].prior

(* -------------------------------- C7 ---------------------------------- *)
\* C7: a failed fetch for an account leaves its stored state alone: every
\* document the cycle leaves holds for the account the entry the cycle read at
\* its start, and no entry when there was none.
C7_FailedFetchKeepsEntry ==
    \A c \in 1..Len(cycles) : \A a \in Polled(c) :
        (cycles[c].resp[a] \in Failures /\ writer = c) =>
            Entry(file.doc, a) = Entry(cycles[c].prior, a)

C9_NoReentrancy ==
    \A c, d \in 1..Len(cycles) : (InFlight(c) /\ InFlight(d)) => c = d

(* -------------------------------- C10 --------------------------------- *)
\* C10: writes never race.  No write of a cycle older than the cycle that wrote
\* the document last puts an account's entry back to the value the older cycle
\* read at its start.
C10_NoLostUpdate ==
    [][ \A c \in 1..Len(cycles) : \A b \in Accounts :
          (writer' = c /\ c < writer /\ file' # file) =>
             ~ ( /\ Entry(file'.doc, b) # Entry(file.doc, b)
                 /\ Entry(file'.doc, b) = Entry(cycles[c].prior, b) ) ]_vars

(* -------------------------------- C11 --------------------------------- *)
\* C11: a directory change only sets the restart flag.  The step that changes
\* the directory sets mRestart and leaves every cycle, mUsers, the document and
\* the dispatched messages alone; no step changes the accounts or keys of a
\* cycle that exists, every fetch answered belongs to an account of the cycle,
\* and every message dispatched goes to a key the cycle was started with.
C11_ChangeOnlySetsFlag ==
    [][ /\ dbVal' # dbVal =>
              /\ mRestart'
              /\ UNCHANGED <<cycles, mUsers, file, sent, timers, mInterval>>
        /\ \A c \in 1..Len(cycles) :
              /\ cycles'[c].users = cycles[c].users
              /\ cycles'[c].pending \subseteq cycles[c].pending
              /\ cycles[c].pending \subseteq DOMAIN cycles[c].users
              /\ \A l \in cycles'[c].lookups : l.acct \in DOMAIN cycles[c].users
        /\ \A m \in BagToSet(sent') :
              CopiesIn(m, sent') > CopiesIn(m, sent) =>
                  /\ m.acct \in DOMAIN cycles[m.cycle].users
                  /\ m.key \in Range(cycles[m.cycle].users[m.acct].keys) ]_vars

\* the directory was edited while a cycle was in flight, and the cycle has since
\* completed with a notification to an account the edited directory no longer
\* lists
C11_Witness ==
    \E c \in 1..Len(cycles) : \E a \in Polled(c) :
        /\ mRestart
        /\ a \notin DOMAIN readUsersFromDatabase(dbVal)
        /\ Done(c)
        /\ MsgSet(c, a) # {}

(* -------------------------------- C12 --------------------------------- *)
\* C12: the cycle in flight is finished before the fresh cycle of a restart
\* begins.  Every cycle after the first began when no fetch and no price lookup
\* of an earlier cycle was outstanding.
C12_RestartWaitsForCycle ==
    \A c \in 1..Len(cycles) : c > 1 => cycles[c].alone

(* -------------------------------- C13 --------------------------------- *)
\* C13: order of a restart.  Between the cancellation of the timer by a restart
\* and the fresh cycle, that is while the directory read of the restart is not
\* answered, no repeating timer is armed.
C13_RestartOrder ==
    (starts > 1 /\ reads > 0) => timers = {}

(* -------------------------------- C14 --------------------------------- *)
\* C14: the timer drives the poll.  Every step in which the probe of a timer
\* firing is answered online while no restart is requested begins a cycle that
\* fetches the inventory of every account of mUsers.
C14_TimerDrivesPoll ==
    [][ (probes' < probes /\ alive' = "running" /\ ~mRestart) =>
            /\ Len(cycles') = Len(cycles) + 1
            /\ cycles'[Len(cycles')].pending = DOMAIN mUsers ]_vars

(* -------------------------------- C15 --------------------------------- *)
\* C15: a failed price lookup still notifies.  Every price lookup that has been
\* answered for an item with match information has caused exactly one dispatch
\* call to each key of the account, none of them without a price, and the
\* document the cycle wrote holds the entry of the account.
C15_PriceFailureStillNotifies ==
    \A c \in 1..Len(cycles) :
        \A l \in cycles[c].issued \ cycles[c].lookups :
            l.info # NullInfo =>
                /\ \A key \in Range(cycles[c].users[l.acct].keys) :
                       MsgCount(c, l.acct, l.id, key) = 1
                /\ \A m \in MsgSet(c, l.acct) : m.id = l.id => m.price # Undef
                /\ writer = c =>
                       Entry(file.doc, l.acct) = JsonIds(Entry(cycles[c].data, l.acct))

(* -------------------------------- C16 --------------------------------- *)
\* C16: missing match information is no error.  Every price lookup that has
\* been answered for an item without match information has caused a dispatch
\* call to each key of the account, and the document the cycle wrote holds the
\* entry of the account.
C16_MissingMatchInfoStillNotifies ==
    \A c \in 1..Len(cycles) :
        \A l \in cycles[c].issued \ cycles[c].lookups :
            l.info = NullInfo =>
                /\ \A key \in Range(cycles[c].users[l.acct].keys) :
                       MsgCount(c, l.acct, l.id, key) >= 1
                /\ file.ok /\ l.id \in Entry(file.doc, l.acct)

(* -------------------------------- C17 --------------------------------- *)
\* the item ids of the items of an inventory body whose name does not match
NonMatchingIds(r) ==
    LET inv == Inventory(r)
    IN  {getAssetId(inv.assets, inv.descriptions[i].classid, inv.descriptions[i].instanceid) :
            i \in {j \in 1..Len(inv.descriptions) : ~REGEX_NAME(inv.descriptions[j].name)}}

\* C17: an item whose name does not match is invisible.  For every account
\* whose fetch returned an inventory, new or known, the id of an item of the
\* response whose name does not match REGEX_NAME is not in the entry of the
\* account in the cycle's store nor in the document, no price lookup was issued
\* for it and no message dispatched.
C17_NonMatchingInvisible ==
    \A c \in 1..Len(cycles) : \A a \in Polled(c) :
        IsInventory(cycles[c].resp[a]) =>
            \A id \in NonMatchingIds(cycles[c].resp[a]) :
                /\ id \notin Entry(cycles[c].data, a)
                /\ id \notin Entry(file.doc, a)
                /\ id \notin IssuedIds(c, a)
                /\ \A m \in MsgSet(c, a) : m.id # id

\* a cycle has completed in which a known account held an item whose name does
\* not match next to a new one that does, and was notified of the latter
C17_Witness ==
    \E c \in 1..Len(cycles) : \E b \in Polled(c) :
        /\ Done(c)
        /\ b \notin cycles[c].newUser
        /\ IsInventory(cycles[c].resp[b])
        /\ NonMatchingIds(cycles[c].resp[b]) # {}
        /\ MsgSet(c, b) # {}
        /\ writer = c

(* -------------------------------- C18 --------------------------------- *)
\* C18: no runtime error terminates the process.  The process is running in
\* every state.
C18_NeverTerminates ==
    alive = "running"

(* -------------------------------- C19 --------------------------------- *)
\* C19: an absent or unparsable document is no failure.  Once a cycle has begun
\* the document is readable; a cycle that read an empty store treats every
\* account as never seen, issues no price lookup and dispatches no message,
\* and what it writes is the baseline of the accounts answered.
C19_MissingDocumentIsEmptyStore ==
    /\ cycles # << >> => file.ok
    /\ \A c \in 1..Len(cycles) :
          cycles[c].prior = EmptyDoc =>
              /\ cycles[c].newUser = Polled(c)
              /\ cycles[c].issued = {}
              /\ \A a \in Polled(c) :
                    /\ MsgSet(c, a) = {}
                    /\ (IsInventory(cycles[c].resp[a]) /\ writer = c) =>
                          Entry(file.doc, a) = JsonIds(MatchedIds(cycles[c].resp[a]))

\* a cycle that began without a readable document has completed and has
\* written the baseline of an account holding one matching item
C19_Witness ==
    \E c \in 1..Len(cycles) :
        /\ cycles[c].prior = EmptyDoc
        /\ Done(c)
        /\ writer = c
        /\ \E a \in Polled(c) : cycles[c].resp[a] = "I1"

(* -------------------------------- C20 --------------------------------- *)
\* C20: persist before notifying.  Whenever a price lookup has been issued for
\* an account in the latest cycle, begun with no other cycle in flight, the
\* document holds for the account the ids of the matching items of its
\* response.
C20_PersistBeforeNotify ==
    \A c \in 1..Len(cycles) : \A a \in Polled(c) :
        (c = Len(cycles) /\ cycles[c].alone /\ IssuedIds(c, a) # {}) =>
            Entry(file.doc, a) = JsonIds(MatchedIds(cycles[c].resp[a]))

(* -------------------------------- C21 --------------------------------- *)
\* C21: a write keeps the other accounts.  The document written by the latest
\* cycle, begun with no other cycle in flight, holds for every account either
\* the entry the cycle read at its start or, when the fetch of the account
\* returned an inventory, the ids of the matching items of that response.
C21_WritesKeepOthers ==
    \A c \in 1..Len(cycles) :
        (writer = c /\ c = Len(cycles) /\ cycles[c].alone) =>
            \A b \in Polled(c) \cup DOMAIN cycles[c].prior :
                \/ Entry(file.doc, b) = Entry(cycles[c].prior, b)
                \/ /\ b \in Polled(c)
                   /\ IsInventory(cycles[c].resp[b])
                   /\ Entry(file.doc, b) = JsonIds(MatchedIds(cycles[c].resp[b]))

(* -------------------------------- C22 --------------------------------- *)
\* C22: save is atomic.  No step, a kill in the middle of a save included,
\* turns a readable document into an unreadable one.
C22_SaveIsAtomic ==
    [][file.ok => file'.ok]_vars

(* -------------------------------- C23 --------------------------------- *)
\* C23: no cycle after the shutdown signal.  No step taken after SIGINT was
\* handled begins a poll cycle.
C23_NoCycleAfterSignal ==
    [][shutdown # "none" => Len(cycles') = Len(cycles)]_vars

(* -------------------------------- C24 --------------------------------- *)
\* C24: after the shutdown signal the process eventually exits, whatever
\* fetch, price lookup or status write is outstanding.
C24_EventuallyExits ==
    (shutdown = "signalled") ~> (alive # "running")

\* the process has exited on the timer of the signal handler, the status write
\* not completed, while a fetch and a price lookup of a cycle were outstanding
C24_Witness ==
    /\ alive = "exited"
    /\ shutdown = "signalled"
    /\ \E c \in 1..Len(cycles) : cycles[c].pending # {} /\ cycles[c].lookups # {}

(* -------------------------------- C25 --------------------------------- *)
\* C25: a failed directory read is not fatal to the loop.  After a directory
\* read has failed, while the process runs, a repeating timer is armed or a
\* directory read is outstanding.
C25_ReadFailureKeepsLoop ==
    ("read" \in faults /\ alive = "running") => (timers # {} \/ reads > 0)

(* -------------------------------- C26 --------------------------------- *)
\* C26: a failed save is reported and not fatal.  The step in which saveData
\* throws leaves the process running and writes an error to the log.
C26_SaveFailureNotFatal ==
    [][ ("save" \in faults' /\ "save" \notin faults) =>
            /\ alive' = "running"
            /\ \E e \in logged' : e.level = "error" ]_vars

(* -------------------------------- C27 --------------------------------- *)
\* C27: a failed delivery is only logged.  The step in which the delivery of a
\* message fails logs the error and changes nothing else: the process runs,
\* the document, the cycles with their outstanding fetches and lookups, and
\* the dispatched messages are as before.  Every step that dispatches a
\* message for an item dispatches one to every key of the account, before any
\* delivery has succeeded or failed.
C27_DeliveryFailureOnlyLogged ==
    [][ /\ ("delivery" \in faults' /\ "delivery" \notin faults) =>
              /\ LogEntry("error", "Error sending message", Undef) \in logged'
              /\ UNCHANGED <<alive, file, writer, cycles, sent, timers, mInterval,
                             mRestart, reads, probes>>
        /\ \A m \in BagToSet(sent') :
              CopiesIn(m, sent') > CopiesIn(m, sent) =>
                  \A key \in Range(cycles[m.cycle].users[m.acct].keys) :
                      \E n \in BagToSet(sent') :
                          /\ n.cycle = m.cycle /\ n.acct = m.acct /\ n.id = m.id
                          /\ n.key = key
                          /\ CopiesIn(n, sent') > CopiesIn(n, sent) ]_vars

\* a delivery has failed, the process runs, and the cycle has completed with
\* messages to both keys of an account and its document written
C27_Witness ==
    /\ "delivery" \in faults
    /\ alive = "running"
    /\ \E c \in 1..Len(cycles) : \E a \in Polled(c) :
          /\ Done(c) /\ writer = c
          /\ Len(cycles[c].users[a].keys) = 2
          /\ {m.key : m \in MsgSet(c, a)} = Range(cycles[c].users[a].keys)

(* -------------------------------- C28 --------------------------------- *)
\* C28: duplicates are absorbed.  For an account whose fetch returned an
\* inventory, the entry of the cycle's store holds no id twice, and no id has
\* caused more than one dispatch call to the same key.
C28_DuplicatesAbsorbed ==
    \A c \in 1..Len(cycles) : \A a \in Polled(c) :
        IsInventory(cycles[c].resp[a]) =>
            /\ Len(cycles[c].data[a]) = Cardinality(Range(cycles[c].data[a]))
            /\ \A m \in MsgSet(c, a) : MsgCount(c, a, m.id, m.key) <= 1

(* -------------------------------- C29 --------------------------------- *)
\* the owned assets of an inventory whose description has a matching name
OwnedMatching(inv) ==
    {i \in 1..Len(inv.assets) :
        \E j \in 1..Len(inv.descriptions) :
            /\ REGEX_NAME(inv.descriptions[j].name)
            /\ inv.descriptions[j].classid = inv.assets[i].classid
            /\ inv.descriptions[j].instanceid = inv.assets[i].instanceid}

\* C29: item ids are unique within one inventory.  In every inventory answered
\* to a fetch, the id getAssetId gives for the class and instance of an owned
\* matching asset is defined, and two distinct owned matching assets do not
\* get the same id.
C29_IdsUniquePerItem ==
    \A c \in 1..Len(cycles) : \A a \in Polled(c) :
        IsInventory(cycles[c].resp[a]) =>
            LET inv == Inventory(cycles[c].resp[a])
                idOf(i) == getAssetId(inv.assets, inv.assets[i].classid,
                                      inv.assets[i].instanceid)
            IN  \A i, j \in OwnedMatching(inv) :
                    /\ idOf(i) # Undef
                    /\ i # j => idOf(i) # idOf(j)

(* -------------------------------- C30 --------------------------------- *)
\* C30: a private inventory is skipped.  For an account whose fetch returned
\* the body null, the warning naming the account is logged, the entry of the
\* account in the cycle's store and in the document the cycle wrote is the one
\* read at the start of the cycle, and the cycle has issued no price lookup
\* and dispatched no message for it.
C30_PrivateSkipped ==
    \A c \in 1..Len(cycles) : \A a \in Polled(c) :
        cycles[c].resp[a] = "null" =>
            /\ LogEntry("warning", "Failed to fetch inventory", a) \in logged
            /\ Entry(cycles[c].data, a) = Entry(cycles[c].prior, a)
            /\ writer = c => Entry(file.doc, a) = Entry(cycles[c].prior, a)
            /\ IssuedIds(c, a) = {}
            /\ MsgSet(c, a) = {}

\* a cycle has completed and written the document, in which the fetch of an
\* account with a stored entry returned the body null
C30_Witness ==
    \E c \in 1..Len(cycles) : \E a \in Polled(c) :
        /\ Done(c) /\ writer = c
        /\ cycles[c].resp[a] = "null"
        /\ a \in DOMAIN cycles[c].prior
        /\ cycles[c].prior[a] # << >>

(* -------------------------------- C31 --------------------------------- *)
\* C31: while the restart flag is set no cycle is begun (so none with the
\* account list resolved before the change), and the run invocation that
\* observes the flag and clears it issues no inventory fetch: it cancels the
\* recorded timer and calls start(), which issues the next directory read.
C31_FlagBlocksCycles ==
    [][ mRestart =>
          /\ Len(cycles') = Len(cycles)
          /\ ~mRestart' => /\ starts' = starts + 1
                           /\ mInterval \notin timers' ]_vars

\* a cycle ran, the directory changed, a run observed the flag, and the next
\* cycle was begun with the account list of the edited directory
C31_Witness ==
    /\ Len(cycles) = 2
    /\ ~mRestart
    /\ DOMAIN cycles[1].users # DOMAIN cycles[2].users
    /\ cycles[2].users = readUsersFromDatabase(dbVal)

(* -------------------------------- C32 --------------------------------- *)
\* the app users of the directory val that declare account l, by position
Declaring(val, l) == {k \in 1..Len(val) : Lists(val[k], l)}

\* C32: when the directory is resolved, an account id that several directory
\* entries declare is resolved once, with the display name the last of those
\* entries gives it and with the notify target of that last entry.
C32_LastEntryWins ==
    [][ nTimers' # nTimers =>
          \A l \in Accounts :
             Cardinality(Declaring(dbVal, l)) > 1 =>
                LET last == dbVal[Max(Declaring(dbVal, l))]
                IN  /\ l \in DOMAIN mUsers'
                    /\ mUsers'[l].username = NameIn(last, l)
                    /\ mUsers'[l].keys = <<last.token>> ]_vars

(* -------------------------------- C38 --------------------------------- *)
\* C38: when the directory is resolved, every account id that one or more
\* directory users list is resolved with one key for each directory user that
\* lists it, in the order of the directory, and an account id that no user
\* lists is not resolved.
C38_KeysPerListingUser ==
    [][ nTimers' # nTimers =>
          \A l \in Accounts :
             LET listing == SelectSeq(dbVal, LAMBDA u : Lists(u, l))
             IN  IF listing = << >>
                 THEN l \notin DOMAIN mUsers'
                 ELSE /\ l \in DOMAIN mUsers'
                      /\ mUsers'[l].keys = [k \in 1..Len(listing) |-> listing[k].token]
          ]_vars

\* a directory was resolved in which three users list one account and nobody
\* lists the other
C38_Witness ==
    /\ nTimers > 0
    /\ ~mRestart
    /\ \E l \in DOMAIN mUsers : Len(mUsers[l].keys) = 3
    /\ Accounts \ DOMAIN mUsers # {}

(* -------------------------------- C33 --------------------------------- *)
\* the description lines of item idx of the inventory body r
LinesOf(r, idx) == Inventory(r).descriptions[idx].descriptions

Matches(value) == REGEX_MATCH(value) # NullInfo

\* C33: the match context attached to a price lookup is the tier and the two
\* team names of the first description line of the item that matches the
\* match-context pattern, whatever lines follow it, and it is null exactly when
\* no line of the item matches.
C33_FirstMatchingLine ==
    \A c \in 1..Len(cycles) : \A l \in cycles[c].issued :
        LET lines == LinesOf(cycles[c].resp[l.acct], l.idx)
        IN  /\ (l.info = NullInfo) <=> (\A i \in 1..Len(lines) : ~Matches(lines[i]))
            /\ \A i \in 1..Len(lines) :
                  (Matches(lines[i]) /\ \A j \in 1..(i - 1) : ~Matches(lines[j]))
                  => l.info = [tier  |-> REGEX_MATCH(lines[i]).tier,
                               team1 |-> REGEX_MATCH(lines[i]).team1,
                               team2 |-> REGEX_MATCH(lines[i]).team2]

\* lookups were issued for an item whose second and third lines match, for an
\* item whose first and third lines match, and for an item without lines
C33_Witness ==
    \E c \in 1..Len(cycles) : \E k, l, m \in cycles[c].issued :
        /\ k.id = "id7" /\ k.info = REGEX_MATCH(MatchLine2)
        /\ l.id = "id8" /\ l.info = REGEX_MATCH(MatchLine)
        /\ m.id = "id10" /\ m.info = NullInfo

(* -------------------------------- C34 --------------------------------- *)
\* C34: while the process runs at most one repeating timer is armed, an armed
\* timer is the one whose handle mInterval records, and mInterval is -1 exactly
\* when no timer is armed.
C34_OneTimer ==
    alive = "running" =>
        /\ Cardinality(timers) <= 1
        /\ timers \subseteq {mInterval}
        /\ (mInterval = NoInterval) <=> (timers = {})

(* -------------------------------- C35 --------------------------------- *)
\* the cycles that took account a for new and received an inventory for it
Baselined(a) ==
    {c \in 1..Len(cycles) :
        a \in cycles[c].newUser /\ IsInventory(cycles[c].resp[a])}

\* C35: an account id that has an entry in the document has one in every
\* document written later, as long as no unreadable file made readData start
\* the store afresh; and no account is baselined by more than one cycle.
C35_EntriesNeverDropped ==
    /\ [][ (file.ok /\ file'.ok) => DOMAIN file.doc \subseteq DOMAIN file'.doc ]_vars
    /\ [](\A a \in Accounts : Cardinality(Baselined(a)) <= 1)

(* -------------------------------- C36 --------------------------------- *)
\* C36: with the timer firing, the probes succeeding and the directory reads
\* answered, a set restart flag leads to a state in which the flag is clear
\* and a cycle has begun since; cycles begin only with the list their own
\* callback has just resolved, so that cycle's list was resolved after the
\* change.
C36_RestartHappens ==
    \A n \in 0..MaxStarts :
        (mRestart /\ Len(cycles) = n) ~> (~mRestart /\ Len(cycles) > n)

(* -------------------------------- C37 --------------------------------- *)
\* C37: while the server is idle (launched idle with no start command handled
\* yet, or a stop was the last remote command handled) no repeating timer is
\* armed and no step begins a poll cycle.
C37_IdleIsQuiet ==
    /\ []((idle /\ alive = "running") => timers = {})
    /\ [][ idle => Len(cycles') = Len(cycles) ]_vars

====
